---- MODULE Spec2Model ----
(***************************************************************************)
(* StoryOrchestrator (backend/main/pipelines/story_orchestrator.py) as a   *)
(* state machine: the orchestrator's fields, the session store on disk,    *)
(* and the entry point invocation in progress.  The three providers        *)
(* (story_generator.py, image_generator.py, image_processor.py) are        *)
(* modelled by the results their calls can return.                         *)
(***************************************************************************)
EXTENDS Integers, Sequences, FiniteSets, TLC

\* At most MaxCalls entry point invocations are made on one orchestrator.
MaxCalls == 2

(***************************************************************************)
(* Values                                                                  *)
(***************************************************************************)
\* Python None, where a string is expected (a session id, a prompt).
None == "<None>"
\* A dict key that is absent (dict.get falls back to its default).
NoKey == "<absent>"

SessionIds == {"s1", "s2"}
Prompts == {"a brave knight"}

\* "session_" + uuid4().hex[:8]: a fresh id per invocation.
GeneratedSessionId(n) == "session_" \o ToString(n)

\* Directories.  NoDir is session_dir = None.
NoDir == [root |-> "none", sid |-> ""]
Cwd == [root |-> "cwd", sid |-> ""]
UploadDir == [root |-> "uploads", sid |-> ""]
SubFolders == {"story", "images", "processed", "final"}

\* File paths.
File(d, sub, name) == [dir |-> d, sub |-> sub, name |-> name]
NonePath == File(NoDir, "", None)
EmptyPath == File(NoDir, "", "")
ImageA == File(UploadDir, "", "a.png")
ImageB == File(UploadDir, "", "b.png")
CorruptImage == File(UploadDir, "", "corrupt.png")
MissingImage == File(UploadDir, "", "missing.png")
ImageArgs == {NonePath, EmptyPath, MissingImage, CorruptImage, ImageA, ImageB}

StepNames == <<"story_generation", "character_generation", "background_generation",
               "character_processing", "scene_compositing", "result_compilation">>

\* A Python dict as a function; d[k] = v.
Put(d, k, v) == (k :> v) @@ d
EmptyDict == <<>>

\* Exceptions: every type below derives from Exception.
ExceptionTypes == {"RuntimeError", "TypeError", "FileNotFoundError", "ProviderError"}
Exc(type, msg) == [type |-> type, msg |-> msg]
NoExc == Exc("", "")

(***************************************************************************)
(* Provider results                                                        *)
(***************************************************************************)
\* What a provider call hands back: a dict, a bool, or an exception.
Result(t, status, error, path, content) ==
    [t |-> t, status |-> status, error |-> error, output_path |-> path,
     content |-> content, character_desc |-> NoKey, background_desc |-> NoKey,
     file_path |-> NonePath, is_placeholder |-> FALSE]
NoResult == Result("none", "", NoKey, NonePath, "")
Raised(msg) == Result("raise", "", msg, NonePath, "")
BoolResult(b) == Result("bool", IF b THEN "True" ELSE "False", NoKey, NonePath, "")

\* Python truthiness of a result: a non-empty dict is truthy, False is not.
Truthy(r) == r.t = "dict" \/ (r.t = "bool" /\ r.status = "True")

\* result.get("error", "Unknown error")
GetError(r) == IF r.error = NoKey THEN "Unknown error" ELSE r.error

(***************************************************************************)
(* State                                                                   *)
(***************************************************************************)
VARIABLES
    story_generator,    \* "none" | "uninitialized" | "pipeline" | "double"
    image_generator,    \* "none" | "uninitialized" | "generator" | "double"
    image_processor,    \* "none" | "processor"
    media,              \* where _create_session_directory succeeds
    session_id,         \* self.session_id
    session_dir,        \* self.session_dir
    workflow_status,    \* self.workflow_status: step -> [status, error]
    output_files,       \* self.output_files: name -> path
    folders,            \* directories on disk: <<dir, sub>>
    files,              \* files on disk: path -> content
    calls,              \* entry point invocations started
    inv,                \* the invocation in progress, or the last one
    other,              \* the invocation of the request thread that is not running
    story_orchestrator, \* the module global: 0 (None) or the instance it holds
    created,            \* StoryOrchestrator() constructions so far
    getter,             \* per thread: its call of get_story_orchestrator
    composite,          \* a call of ImageProcessor.merge_images on two images
    merged,             \* a call of _merge_two_images on two images
    request             \* a request to GenerateStoryView and its StorySession

vars == <<story_generator, image_generator, image_processor, media, session_id,
          session_dir, workflow_status, output_files, folders, files, calls, inv,
          other, story_orchestrator, created, getter, composite, merged, request>>
\* What the entry points of one invocation leave alone.
threads == <<other, story_orchestrator, created, getter, composite, merged, request>>
providers == <<story_generator, image_generator, image_processor, media>>


\* The dict an entry point returns; keys names the keys it has.
Return(keys, status, sid, error) ==
    [keys |-> keys, status |-> status, session_id |-> sid, error |-> error,
     workflow_status |-> EmptyDict, output_files |-> EmptyDict,
     partial_results |-> EmptyDict, results |-> EmptyDict]
NoReturn == Return({}, "", None, "")

Idle ==
    [ep |-> "", pc |-> "idle", running |-> FALSE, prompt |-> "", sid |-> None,
     image1 |-> NonePath, image2 |-> NonePath,
     story |-> NoResult, character |-> NoResult, background |-> NoResult,
     processed |-> NoResult, scene |-> NoResult, exc |-> NoExc, ret |-> NoReturn,
     failed |-> "", cause |-> "", view |-> ""]

\* The files uploaded by callers exist before any invocation.
Image(by) == [kind |-> "png", sections |-> <<>>, by |-> by]
Uploads == (ImageA :> Image(0)) @@ (ImageB :> Image(0)) @@
           (CorruptImage :> [kind |-> "garbage", sections |-> <<>>, by |-> 0])

\* No call of _merge_two_images is being made.
NotMerged == [pc |-> "idle", image1 |-> <<0, 0>>, image2 |-> <<0, 0>>, status |-> "",
              size |-> <<0, 0>>, position1 |-> <<0, 0>>, position2 |-> <<0, 0>>]

\* No request is being handled by GenerateStoryView, no StorySession exists.
NoRequest == [pc |-> "idle", generation_type |-> "", prompt_text |-> [t |-> "str", v |-> ""],
              session |-> "", call |-> 0, result |-> "", code |-> 0, handled |-> 0]

\* No call of merge_images is being made.
NotMerging == [pc |-> "idle", character |-> <<0, 0>>, background |-> <<0, 0>>,
               status |-> "", character_size |-> <<0, 0>>, final_size |-> <<0, 0>>,
               character_position |-> <<0, 0>>]

\* Request threads of the server, and a thread's call of
\* get_story_orchestrator: where it is, the instance it constructed, the
\* instances its calls returned so far.
Threads == {"t1", "t2", "t3"}
NotCalling == [pc |-> "idle", made |-> 0, rets |-> <<>>]

\* StoryOrchestrator.__init__ and _initialize_pipelines: each provider is the
\* shipped class, absent (its getter raised or the imports failed), or a
\* stand-in with the provider interface put in its place by a caller.
Shipped == <<"pipeline", "generator", "processor">>
Doubles == <<"double", "double", "processor">>
Environments ==
    { <<<<"none", "none", "none">>, "media_root">>,     \* the AI modules do not import
      <<<<"none", "uninitialized", "none">>, "cwd">>,  \* a generator that is not initialized
      <<<<"uninitialized", "generator", "processor">>, "media_root">>, \* LangChain failed
      <<Shipped, "media_root">>,                         \* everything shipped, loaded
      <<Shipped, "fallback">>,
      <<Shipped, "cwd">>,
      <<Doubles, "media_root">>,
      <<Doubles, "cwd">>,
      <<<<"double", "double", "none">>, "media_root">> }

\* What an earlier run of the server left under MEDIA_ROOT: the folders of
\* session "s1" and the merged.png of a merge (nothing calls cleanup_session).
EarlierSession == [root |-> "media_root", sid |-> "s1"]
EarlierFolders(m) ==
    IF m = "media_root" THEN {<<EarlierSession, sub>> : sub \in SubFolders} ELSE {}
EarlierFiles(m) ==
    IF m = "media_root" THEN File(EarlierSession, "images", "merged.png") :> Image(0)
    ELSE EmptyDict

Init ==
    /\ \E e \in Environments :
         /\ story_generator = e[1][1]
         /\ image_generator = e[1][2]
         /\ image_processor = e[1][3]
         /\ media = e[2]
    /\ session_id = None
    /\ session_dir = NoDir
    /\ workflow_status = EmptyDict
    /\ output_files = EmptyDict
    /\ folders = EarlierFolders(media)
    /\ files = Uploads @@ EarlierFiles(media)
    /\ calls = 0
    /\ inv = Idle
    /\ other = Idle
    /\ story_orchestrator = 0
    /\ created = 0
    /\ getter = [t \in Threads |-> NotCalling]
    /\ composite = NotMerging
    /\ merged = NotMerged
    /\ request = NoRequest

\* _create_session_directory with mkdir(exist_ok=False): a directory that is
\* already there raises FileExistsError, in the fallback too.
SessionDirectoryExclusive(sid) ==
    IF sid = None THEN Cwd
    ELSE CASE media = "media_root" /\ <<[root |-> "media_root", sid |-> sid], "story">> \notin folders
                -> [root |-> "media_root", sid |-> sid]
           [] media = "fallback" /\ <<[root |-> "fallback", sid |-> sid], "story">> \notin folders
                -> [root |-> "fallback", sid |-> sid]
           [] OTHER -> Cwd

\* _create_session_directory without its last resort: None is returned
\* when neither location can be used.
SessionDirectoryWithoutLastResort(sid) ==
    IF sid = None THEN NoDir
    ELSE CASE media = "media_root" -> [root |-> "media_root", sid |-> sid]
           [] media = "fallback" -> [root |-> "fallback", sid |-> sid]
           [] OTHER -> NoDir

(***************************************************************************)
(* Helpers of the orchestrator                                             *)
(***************************************************************************)
\* _create_session_directory: the path it returns.  A session id of None
\* makes both Path joins raise TypeError, which leaves the current directory.
SessionDirectory(sid) ==
    IF sid = None THEN Cwd
    ELSE CASE media = "media_root" -> [root |-> "media_root", sid |-> sid]
           [] media = "fallback" -> [root |-> "fallback", sid |-> sid]
           [] OTHER -> Cwd

\* _create_session_directory: the folders on disk afterwards (mkdir with
\* exist_ok keeps what is there).
CreateSessionDirectory(sid) ==
    IF SessionDirectory(sid) = Cwd THEN folders
    ELSE folders \cup {<<SessionDirectory(sid), sub>> : sub \in SubFolders}

\* _update_workflow_status that never reopens a completed step.
UpdateWorkflowStatusKeepCompleted(ws, step, status, error) ==
    IF step \in DOMAIN ws /\ ws[step].status = "completed" THEN ws
    ELSE Put(ws, step, [status |-> status, error |-> error])

\* _update_workflow_status: the record of step is replaced.
UpdateWorkflowStatus(ws, step, status, error) ==
    Put(ws, step, [status |-> status, error |-> error])

\* The availability test without its "initialized" half.
AvailableIfPresent(kind) == kind # "none"

\* "not self.x or not self.x.initialized" is false: the provider can be called.
Available(kind) == kind \notin {"none", "uninitialized"}

\* The session id taken as given, with no id generated for None.
NewSessionIdAsGiven(sid, n) == sid

\* session_id or f"session_{uuid.uuid4().hex[:8]}", in the n-th invocation.
NewSessionId(sid, n) == IF sid = None \/ sid = "" THEN GeneratedSessionId(n) ELSE sid

\* "except RuntimeError" in place of "except Exception".
CaughtByExceptRuntimeError(e) == e.type = "RuntimeError"

\* "except Exception" at an entry point's boundary.
CaughtByExcept(e) == e.type \in ExceptionTypes

\* path.parent.mkdir(parents=True, exist_ok=True)
MkdirParent(fs, path) == fs \cup {<<path.dir, path.sub>>}

Exists(path) == path \in DOMAIN files

CanCall == inv.pc \in {"idle", "done"} /\ calls < MaxCalls

(***************************************************************************)
(* Providers                                                               *)
(***************************************************************************)
\* LangChainCore._create_creative_story: a template around the prompt.
CreativeStory(prompt) == "Once upon a time, a brave soul discovered " \o prompt

\* StoryGeneratorPipeline.generate_story, or a stand-in for it.
StoryGeneratorResults(kind, prompt) ==
    CASE kind = "pipeline" ->
           IF prompt = None
           THEN {Result("dict", "error", NoKey, NonePath, "Error: 'NoneType' object is not subscriptable")}
           ELSE {[Result("dict", "success", NoKey, NonePath, CreativeStory(prompt))
                    EXCEPT !.character_desc = "A determined character involving " \o prompt,
                           !.background_desc = "A dynamic setting where " \o prompt]}
      [] kind = "double" ->
           {[Result("dict", "success", NoKey, NonePath, "A story")
                EXCEPT !.character_desc = "A hero", !.background_desc = "A realm"],
            Result("dict", "error", "story provider error", NonePath, ""),
            Raised("story provider raised")}
      [] OTHER ->
           {Result("dict", "error", NoKey, NonePath, "Story generation pipeline not initialized")}

\* ImageGenerator.generate_character_image / generate_background_image
\* return a bool; a stand-in returns the interface's dict or raises.
ImageGeneratorResults(kind, path) ==
    CASE kind = "generator" -> {BoolResult(TRUE), BoolResult(FALSE)}
      [] kind = "double" ->
           {Result("dict", "success", NoKey, path, ""),
            Result("dict", "error", "image provider error", path, ""),
            Raised("image provider raised")}
      [] OTHER -> {}

\* The provider wrote its image exactly when it reports success.
Wrote(r) == (r.t = "dict" /\ r.status = "success") \/ (r.t = "bool" /\ r.status = "True")

\* ImageProcessor.remove_background and merge_images: never raise.
ImageProcessorResults(inputs, path) ==
    IF \E i \in inputs : ~Exists(i)
    THEN {Result("dict", "error", "image not found", path, "")}
    ELSE {Result("dict", "success", NoKey, path, ""),
          Result("dict", "error", "image processing error", path, "")}


(***************************************************************************)
(* process_user_request                                                    *)
(***************************************************************************)
Running(ep, step) == inv.ep = ep /\ inv.pc = step /\ inv.running

\* The step that follows step in process_user_request.
NextStep(step) ==
    LET i == CHOOSE j \in DOMAIN StepNames : StepNames[j] = step
    IN  IF i < Len(StepNames) THEN StepNames[i + 1] ELSE "done"

\* StepFails without the "raise" that ends it: the failure is recorded and
\* the pipeline goes on to the next step.
StepFailsSwallowed(step, e, cause) ==
    /\ workflow_status' = UpdateWorkflowStatus(workflow_status, step, "failed", e.msg)
    /\ inv' = [inv EXCEPT !.pc = NextStep(step), !.running = FALSE, !.exc = e,
                          !.failed = step, !.cause = cause]

\* The except clause of a step: the step is recorded failed and the
\* exception is raised again, to the except clause of process_user_request.
\* inv.failed and inv.cause remember the step and whether a provider
\* ("provider"), the session store ("filesystem") or the orchestrator's own
\* code ("orchestrator") raised.
StepFails(step, e, cause) ==
    /\ workflow_status' = UpdateWorkflowStatus(workflow_status, step, "failed", e.msg)
    /\ inv' = [inv EXCEPT !.pc = "except", !.running = FALSE, !.exc = e,
                          !.failed = step, !.cause = cause]

\* generated_story.txt with the two description sections in the other order.
StoryFileDescriptionsSwapped(prompt, r, by) ==
    [kind |-> "story",
     sections |-> << [label |-> "User Prompt:", text |-> prompt],
                     [label |-> "Generated Story:", text |-> r.content],
                     [label |-> "Background Descriptions:", text |-> r.background_desc],
                     [label |-> "Character Descriptions:", text |-> r.character_desc] >>,
     by |-> by]

\* The four sections of generated_story.txt, as they are written.
StoryFile(prompt, r, by) ==
    [kind |-> "story",
     sections |-> << [label |-> "User Prompt:", text |-> prompt],
                     [label |-> "Generated Story:", text |-> r.content],
                     [label |-> "Character Descriptions:", text |-> r.character_desc],
                     [label |-> "Background Descriptions:", text |-> r.background_desc] >>,
     by |-> by]

\* Lines 209-222: the per-call fields are reset and the session directory made.
ProcessUserRequest(prompt, sid) ==
    /\ CanCall
    /\ calls' = calls + 1
    /\ session_id' = NewSessionId(sid, calls + 1)
    /\ workflow_status' = EmptyDict
    /\ output_files' = EmptyDict
    /\ session_dir' = SessionDirectory(session_id')
    /\ folders' = CreateSessionDirectory(session_id')
    /\ inv' = [Idle EXCEPT !.ep = "process_user_request", !.pc = "story_generation",
                           !.prompt = prompt, !.sid = sid]
    /\ UNCHANGED <<providers, threads, files>>

\* The first statement of each step: the step is recorded in progress.
BeginStep ==
    /\ inv.ep = "process_user_request"
    /\ \E i \in DOMAIN StepNames : inv.pc = StepNames[i]
    /\ ~inv.running
    /\ workflow_status' = UpdateWorkflowStatus(workflow_status, inv.pc, "in_progress", "")
    /\ inv' = [inv EXCEPT !.running = TRUE]
    /\ UNCHANGED <<providers, threads, session_id, session_dir, output_files, folders, files, calls>>

\* _generate_story_content
GenerateStoryContent ==
    /\ Running("process_user_request", "story_generation")
    /\ LET path == File(session_dir, "story", "generated_story.txt")
           fail(e, cause) == /\ StepFails("story_generation", e, cause)
                             /\ UNCHANGED <<output_files, files>>
       IN  IF ~Available(story_generator)
           THEN fail(Exc("RuntimeError", "Story generator not available"), "provider")
           ELSE \E r \in StoryGeneratorResults(story_generator, inv.prompt) :
                  IF r.t = "raise" THEN fail(Exc("ProviderError", r.error), "provider")
                  ELSE IF r.status # "success"
                  THEN fail(Exc("RuntimeError", "Story generation failed: " \o GetError(r)),
                            "provider")
                  ELSE IF <<session_dir, "story">> \notin folders
                  THEN fail(Exc("FileNotFoundError", "No such file or directory"),
                            "filesystem")
                  ELSE /\ files' = Put(files, path, StoryFile(inv.prompt, r, calls))
                       /\ output_files' = Put(output_files, "story", path)
                       /\ workflow_status' =
                            UpdateWorkflowStatus(workflow_status, "story_generation", "completed", "")
                       /\ inv' = [inv EXCEPT !.pc = "character_generation",
                                             !.running = FALSE, !.story = r]
    /\ UNCHANGED <<providers, threads, session_id, session_dir, folders, calls>>

\* _generate_character_image and _generate_background_image: the same code
\* for step, the name of its file, the key of its output and its result.
GenerateImage(step, file, key, label, next) ==
    /\ Running("process_user_request", step)
    /\ LET path == File(session_dir, "images", file)
       IN  IF ~Available(image_generator)
           THEN /\ StepFails(step, Exc("RuntimeError", "Image generator not available"),
                             "provider")
                /\ UNCHANGED <<output_files, files, folders>>
           ELSE \E r \in ImageGeneratorResults(image_generator, path) :
                  /\ files' = IF Wrote(r) THEN Put(files, path, Image(calls)) ELSE files
                  /\ folders' = IF Wrote(r) THEN MkdirParent(folders, path) ELSE folders
                  /\ IF r.t = "raise"
                     THEN /\ StepFails(step, Exc("ProviderError", r.error), "provider")
                          /\ UNCHANGED output_files
                     ELSE IF r.t = "bool"
                     THEN /\ StepFails(step, Exc("TypeError", "'bool' object is not subscriptable"),
                                       IF Wrote(r) THEN "orchestrator" ELSE "provider")
                          /\ UNCHANGED output_files
                     ELSE IF r.status # "success"
                     THEN /\ StepFails(step, Exc("RuntimeError", label \o " generation failed: "
                                                               \o GetError(r)), "provider")
                          /\ UNCHANGED output_files
                     ELSE /\ output_files' = Put(output_files, key, path)
                          /\ workflow_status' = UpdateWorkflowStatus(workflow_status, step, "completed", "")
                          /\ inv' = [inv EXCEPT !.pc = next, !.running = FALSE,
                                                !.character = IF key = "character_image" THEN r ELSE @,
                                                !.background = IF key = "background_image" THEN r ELSE @]
    /\ UNCHANGED <<providers, threads, session_id, session_dir, calls>>

\* _generate_character_image followed at once by the processing of the
\* character, the background left out.
GenerateCharacterImageThenProcessing ==
    GenerateImage("character_generation", "character.png", "character_image",
                  "Character", "character_processing")

GenerateCharacterImage ==
    GenerateImage("character_generation", "character.png", "character_image",
                  "Character", "background_generation")

\* _generate_background_image recording its file under the key of the
\* character image.
GenerateBackgroundImageAsCharacter ==
    GenerateImage("background_generation", "background.png", "character_image",
                  "Background", "character_processing")

GenerateBackgroundImage ==
    GenerateImage("background_generation", "background.png", "background_image",
                  "Background", "character_processing")

\* _process_character_image and _create_final_scene: the same code around
\* remove_background(character) and merge_images(character, background).
ProcessImage(step, sub, file, key, inputs, label, next) ==
    /\ Running("process_user_request", step)
    /\ LET path == File(session_dir, sub, file)
       IN  IF image_processor = "none"
           THEN /\ StepFails(step, Exc("RuntimeError", "Image processor not available"),
                             "provider")
                /\ UNCHANGED <<output_files, files, folders>>
           ELSE \E r \in ImageProcessorResults(inputs, path) :
                  /\ files' = IF Wrote(r) THEN Put(files, path, Image(calls)) ELSE files
                  /\ folders' = IF Wrote(r) THEN MkdirParent(folders, path) ELSE folders
                  /\ IF r.status # "success"
                     THEN /\ StepFails(step, Exc("RuntimeError", label \o " failed: " \o GetError(r)),
                                       "provider")
                          /\ UNCHANGED output_files
                     ELSE /\ output_files' = Put(output_files, key, path)
                          /\ workflow_status' = UpdateWorkflowStatus(workflow_status, step, "completed", "")
                          /\ inv' = [inv EXCEPT !.pc = next, !.running = FALSE,
                                                !.processed = IF key = "processed_character" THEN r ELSE @,
                                                !.scene = IF key = "final_scene" THEN r ELSE @]
    /\ UNCHANGED <<providers, threads, session_id, session_dir, calls>>

ProcessCharacterImage ==
    ProcessImage("character_processing", "processed", "character_no_bg.png",
                 "processed_character", {inv.character.output_path},
                 "Character processing", "scene_compositing")

CreateFinalScene ==
    ProcessImage("scene_compositing", "final", "final_scene.png", "final_scene",
                 {inv.processed.output_path, inv.background.output_path},
                 "Scene compositing", "result_compilation")

\* _compile_final_results with a copy of the workflow status in the result.
CompiledWorkflowStatusCopied(before, after) == before

\* What the caller sees of the workflow status in the result of
\* _compile_final_results: the result holds self.workflow_status itself, not
\* a copy, so the record written after the result was built is in it.
CompiledWorkflowStatus(before, after) == after

\* _compile_final_results, and the return of process_user_request.
CompileFinalResults ==
    /\ Running("process_user_request", "result_compilation")
    /\ workflow_status' =
         UpdateWorkflowStatus(workflow_status, "result_compilation", "completed", "")
    /\ inv' = [inv EXCEPT
         !.pc = "done", !.running = FALSE,
         !.ret = [Return({"status", "session_id", "total_time_seconds", "workflow_status",
                          "output_files", "results", "session_directory", "timestamp"},
                         "success", session_id, NoKey)
                    EXCEPT !.workflow_status =
                               CompiledWorkflowStatus(workflow_status, workflow_status'),
                           !.output_files = output_files,
                           !.results = ("story" :> inv.story) @@ ("character" :> inv.character)
                                       @@ ("background" :> inv.background)
                                       @@ ("processed_character" :> inv.processed)
                                       @@ ("final_scene" :> inv.scene)]]
    /\ UNCHANGED <<providers, threads, session_id, session_dir, output_files, folders, files, calls>>

\* The error result with the partial results left out.
ErrorResultWithoutFiles(sid, e, ws, of) ==
    [Return({"status", "session_id", "error", "workflow_status", "partial_results"},
            "error", sid, e.msg)
       EXCEPT !.workflow_status = ws]

\* The dict the except clause of process_user_request returns (265-271).
ErrorResult(sid, e, ws, of) ==
    [Return({"status", "session_id", "error", "workflow_status", "partial_results"},
            "error", sid, e.msg)
       EXCEPT !.workflow_status = ws, !.partial_results = of]

\* The except clause of process_user_request (lines 256-271).
PipelineExcept ==
    /\ inv.ep = "process_user_request"
    /\ inv.pc = "except"
    /\ IF CaughtByExcept(inv.exc)
       THEN /\ workflow_status' =
                 UpdateWorkflowStatus(workflow_status, "pipeline_execution", "failed", inv.exc.msg)
            /\ inv' = [inv EXCEPT
                 !.pc = "done",
                 !.ret = ErrorResult(session_id, inv.exc, workflow_status', output_files)]
       ELSE /\ inv' = [inv EXCEPT !.pc = "propagated"]
            /\ UNCHANGED workflow_status
    /\ UNCHANGED <<providers, threads, session_id, session_dir, output_files, folders, files, calls>>

(***************************************************************************)
(* The partial entry points                                                *)
(***************************************************************************)
\* The failure dict with the status process_user_request uses.
FailedAsError(error, sid) == Return({"status", "error", "session_id"}, "error", sid, error)

\* {"status": "failed", "error": ..., "session_id": session_id}
Failed(error, sid) == Return({"status", "error", "session_id"}, "failed", sid, error)

\* The first lines of generate_story_only, generate_character_only and
\* generate_background_only: neither workflow_status nor output_files is
\* reset; the step is recorded in progress.
BeginOnly(ep, step, prompt, sid) ==
    /\ CanCall
    /\ calls' = calls + 1
    /\ session_id' = sid
    /\ session_dir' = SessionDirectory(sid)
    /\ folders' = CreateSessionDirectory(sid)
    /\ workflow_status' = UpdateWorkflowStatus(workflow_status, step, "in_progress", "")
    /\ inv' = [Idle EXCEPT !.ep = ep, !.pc = "run", !.prompt = prompt, !.sid = sid]
    /\ UNCHANGED <<providers, threads, output_files, files>>

GenerateStoryOnly(prompt, sid) ==
    BeginOnly("generate_story_only", "story_generation", prompt, sid)

GenerateCharacterOnly(prompt, sid) ==
    BeginOnly("generate_character_only", "character_generation", prompt, sid)

GenerateBackgroundOnly(prompt, sid) ==
    BeginOnly("generate_background_only", "background_generation", prompt, sid)

\* _generate_fallback_story: the template around the prompt.
FallbackStory(prompt) ==
    [Result("dict", "success", NoKey, NonePath,
            "Once upon a time, there was a world where " \o prompt)
       EXCEPT !.character_desc = "A protagonist inspired by: " \o prompt,
              !.background_desc = "A setting that reflects: " \o prompt]

\* _generate_story (with _generate_fallback_story) and the rest of
\* generate_story_only.
GenerateStory ==
    /\ inv.ep = "generate_story_only" /\ inv.pc = "run"
    /\ LET path == File(session_dir, "story", "generated_story.txt")
           fail(e) ==
               /\ inv' = [inv EXCEPT
                    !.exc = e,
                    !.pc = IF CaughtByExcept(e) THEN "done" ELSE "propagated",
                    !.ret = IF CaughtByExcept(e) THEN Failed(e.msg, inv.sid) ELSE @]
               /\ UNCHANGED <<output_files, files, folders>>
           succeed(r) ==
               /\ folders' = MkdirParent(folders, path)
               /\ files' = Put(files, path, StoryFile(inv.prompt, r, calls))
               /\ output_files' = Put(output_files, "story", path)
               /\ inv' = [inv EXCEPT
                    !.pc = "done", !.story = r,
                    !.ret = [Return({"status", "session_id", "results", "output_files",
                                     "total_time_seconds", "workflow_status"},
                                    "success", inv.sid, NoKey)
                               EXCEPT !.results = "story" :> r,
                                      !.output_files = output_files',
                                      !.workflow_status = workflow_status]]
       IN  IF session_dir = NoDir
           THEN fail(Exc("RuntimeError", "Session directory not initialized"))
           ELSE IF ~Available(story_generator)
           THEN succeed(FallbackStory(inv.prompt))
           ELSE \E r \in StoryGeneratorResults(story_generator, inv.prompt) :
                  IF r.t = "raise" THEN fail(Exc("ProviderError", r.error))
                  ELSE IF r.status # "success"
                  THEN fail(Exc("RuntimeError", "Story generation failed: " \o GetError(r)))
                  ELSE succeed(r)
    /\ UNCHANGED <<providers, threads, session_id, session_dir, workflow_status, calls>>

\* The dict _generate_character_image_from_prompt and
\* _generate_background_image_from_prompt return.
\* The image result without the is_placeholder mark.
ImageInfoUnmarked(status, error, path, placeholder) ==
    [Result("dict", status, error, NonePath, "") EXCEPT !.file_path = path]

ImageInfo(status, error, path, placeholder) ==
    [Result("dict", status, error, NonePath, "")
       EXCEPT !.file_path = path, !.is_placeholder = placeholder]

\* "if not character_result: raise": the test the entry point makes of the
\* dict it got back.
ImageStepFailed(info) == ~Truthy(info)

\* _generate_character_image_from_prompt / _generate_background_image_from_prompt
\* with their fallbacks, and the rest of the entry point.
GenerateImageFromPrompt(ep, file, placeholder, key, label) ==
    /\ inv.ep = ep /\ inv.pc = "run"
    /\ LET path == File(session_dir, "images", file)
           text == File(session_dir, "images", placeholder)
           return(info) ==
               inv' = [inv EXCEPT
                    !.pc = "done",
                    !.character = IF key = "character_image" THEN info ELSE @,
                    !.background = IF key = "background_image" THEN info ELSE @,
                    !.ret = IF ImageStepFailed(info)
                            THEN Failed(label \o " generation failed", inv.sid)
                            ELSE [Return({"status", "session_id", "results", "output_files",
                                          "total_time_seconds", "workflow_status"},
                                         "success", inv.sid, NoKey)
                                    EXCEPT !.results = key :> info,
                                           !.output_files = key :> info.file_path,
                                           !.workflow_status = workflow_status]]
       IN  IF ~Available(image_generator)
           THEN /\ folders' = MkdirParent(folders, text)
                /\ files' = Put(files, text,
                                [kind |-> "placeholder", sections |-> <<>>, by |-> calls])
                /\ return(ImageInfo("success", NoKey, text, TRUE))
           ELSE \E r \in ImageGeneratorResults(image_generator, path) :
                  /\ folders' = MkdirParent(folders, path)
                  /\ files' = IF Wrote(r) THEN Put(files, path, Image(calls)) ELSE files
                  /\ IF r.t = "raise"
                     THEN return(ImageInfo("failed", r.error, NonePath, FALSE))
                     ELSE IF Truthy(r) /\ path \in DOMAIN files'
                     THEN return(ImageInfo("success", NoKey, path, FALSE))
                     ELSE return(ImageInfo("failed", label \o " image generation failed",
                                           NonePath, FALSE))
    /\ UNCHANGED <<providers, threads, session_id, session_dir, workflow_status, output_files, calls>>

GenerateCharacterImageFromPrompt ==
    GenerateImageFromPrompt("generate_character_only", "character.png",
                            "character_placeholder.txt", "character_image", "Character")

GenerateBackgroundImageFromPrompt ==
    GenerateImageFromPrompt("generate_background_only", "background.png",
                            "background_placeholder.txt", "background_image", "Background")

\* The first lines of merge_images_only (755-759): the session directory is
\* made, and its path dropped.
MergeImagesOnlyFrom(view, prompt, sid, image1, image2) ==
    /\ CanCall
    /\ calls' = calls + 1
    /\ session_id' = sid
    /\ folders' = CreateSessionDirectory(sid)
    /\ inv' = [Idle EXCEPT !.ep = "merge_images_only", !.pc = "run", !.prompt = prompt,
                           !.sid = sid, !.image1 = image1, !.image2 = image2,
                           !.view = view]
    /\ UNCHANGED <<providers, threads, session_dir, workflow_status, output_files, files>>

\* merge_images_only called directly, with the paths of two images.
MergeImagesOnly(prompt, sid, image1, image2) ==
    MergeImagesOnlyFrom("", prompt, sid, image1, image2)

\* GenerateStoryView.post with generation_type "merge" (views.py:169-208):
\* both uploads are required, a session with a fresh id is created, and
\* merge_images_only is called with the prompt and the session id alone.
PostMerge(image1, image2) ==
    /\ image1 # NonePath /\ image2 # NonePath
    /\ MergeImagesOnlyFrom("merge", "", GeneratedSessionId(calls + 1), NonePath, NonePath)

\* The response of GenerateStoryView.post to the orchestrator's result
\* (views.py:210-258): 200 with the image URLs of _prepare_response_data,
\* which gives a merge none, or 500.
Response(view, result) ==
    IF result.status = "success"
    THEN [code |-> 200,
          image_urls |-> IF view = "merge" THEN {} ELSE DOMAIN result.output_files]
    ELSE [code |-> 500, image_urls |-> {}]

\* "not image_path": None and "" are falsy.
Given(path) == path # NonePath /\ path # EmptyPath

\* Image.open succeeds on an image file.
Readable(path) == Exists(path) /\ files[path].kind = "png"

\* _merge_two_images: True when both images open and the result is saved.
MergeTwoImages(image1, image2) == Readable(image1) /\ Readable(image2)

\* The rest of merge_images_only (766-824).
MergeImages ==
    /\ inv.ep = "merge_images_only" /\ inv.pc = "run"
    /\ LET path == File(session_dir, "images", "merged.png")
           return(r) == /\ inv' = [inv EXCEPT !.pc = "done", !.ret = r]
                        /\ UNCHANGED <<files, folders>>
       IN  IF ~Given(inv.image1) \/ ~Given(inv.image2)
           THEN return(Failed("Both image1_path and image2_path are required for merging",
                              inv.sid))
           ELSE IF ~Exists(inv.image1) \/ ~Exists(inv.image2)
           THEN return(Failed("One or both images not found", inv.sid))
           ELSE IF session_dir = NoDir
           THEN LET e == Exc("TypeError",
                             "expected str, bytes or os.PathLike object, not NoneType")
                IN  /\ inv' = [inv EXCEPT
                         !.exc = e,
                         !.pc = IF CaughtByExcept(e) THEN "done" ELSE "propagated",
                         !.ret = IF CaughtByExcept(e) THEN Failed(e.msg, inv.sid) ELSE @]
                    /\ UNCHANGED <<files, folders>>
           ELSE IF MergeTwoImages(inv.image1, inv.image2)
           THEN /\ folders' = MkdirParent(folders, path)
                /\ files' = Put(files, path,
                                [kind |-> "png", sections |-> <<>>, by |-> calls])
                /\ inv' = [inv EXCEPT
                     !.pc = "done",
                     !.ret = [Return({"status", "session_id", "results", "output_files",
                                      "total_time_seconds", "workflow_status"},
                                     "success", inv.sid, NoKey)
                                EXCEPT !.output_files = "merged_image" :> path,
                                       !.workflow_status = workflow_status]]
           ELSE /\ folders' = MkdirParent(folders, path)
                /\ files' = files
                /\ inv' = [inv EXCEPT !.pc = "done",
                                      !.ret = Failed("Failed to merge images", inv.sid)]
    /\ UNCHANGED <<providers, threads, session_id, session_dir, workflow_status, output_files, calls>>

Next ==
    \/ \E prompt \in Prompts \cup {None}, sid \in {"s1", None} :
         ProcessUserRequest(prompt, sid)
    \/ \E prompt \in Prompts \cup {""}, sid \in SessionIds :
         GenerateStoryOnly(prompt, sid)
    \/ \E prompt \in Prompts, sid \in SessionIds :
         \/ GenerateCharacterOnly(prompt, sid)
         \/ GenerateBackgroundOnly(prompt, sid)
    \/ \E sid \in SessionIds, image1 \in ImageArgs, image2 \in ImageArgs \ {ImageA, CorruptImage} :
         MergeImagesOnly("", sid, image1 , image2)
    \/ \E image1 \in {ImageA}, image2 \in {ImageB} : PostMerge(image1, image2)
    \/ BeginStep
    \/ GenerateStoryContent
    \/ GenerateCharacterImage
    \/ GenerateBackgroundImage
    \/ ProcessCharacterImage
    \/ CreateFinalScene
    \/ CompileFinalResults
    \/ PipelineExcept
    \/ GenerateStory
    \/ GenerateCharacterImageFromPrompt
    \/ GenerateBackgroundImageFromPrompt
    \/ MergeImages

Spec == Init /\ [][Next]_vars

(***************************************************************************)
(* Two request threads on the shared orchestrator                          *)
(***************************************************************************)
\* The running thread is preempted and the other request thread runs: the
\* locals of an invocation go with its thread, the orchestrator's fields are
\* shared (views.py calls the entry points on get_story_orchestrator()).
Switch ==
    /\ inv' = other
    /\ other' = inv
    /\ UNCHANGED <<providers, session_id, session_dir, workflow_status, output_files,
                   folders, files, calls, story_orchestrator, created, getter,
                   composite, merged, request>>

\* The server with its providers in place and MEDIA_ROOT usable.
InitConcurrent ==
    /\ Init
    /\ <<story_generator, image_generator, image_processor>> \in {Shipped, Doubles}
    /\ media = "media_root"

NextConcurrent ==
    \/ ProcessUserRequest("a brave knight", "s1")
    \/ GenerateStoryOnly("a brave knight", "s2")
    \/ BeginStep
    \/ GenerateStoryContent
    \/ GenerateCharacterImage
    \/ GenerateBackgroundImage
    \/ ProcessCharacterImage
    \/ CreateFinalScene
    \/ CompileFinalResults
    \/ PipelineExcept
    \/ GenerateStory
    \/ Switch

SpecConcurrent == InitConcurrent /\ [][NextConcurrent]_vars

(***************************************************************************)
(* ImageProcessor.merge_images: the geometry of the composite              *)
(***************************************************************************)
\* Characters are up to MaxSide pixels wide and high.
MaxSide == 24
CharacterSizes == ((1..MaxSide) \X (1..MaxSide)) \cup {<<200, 300>>}
BackgroundSizes == {<<800, 600>>, <<512, 512>>, <<96, 56>>, <<64, 64>>}

RECURSIVE Pow2(_)
Pow2(n) == IF n <= 0 THEN 1 ELSE 2 * Pow2(n - 1)

\* floor(log2(a / b)) for positive integers a and b: the exponent of the
\* double nearest to a / b.
RECURSIVE ExponentUp(_, _, _)
ExponentUp(a, b, e) == IF b * Pow2(e + 1) <= a THEN ExponentUp(a, b, e + 1) ELSE e
RECURSIVE ExponentDown(_, _, _)
ExponentDown(a, b, k) == IF a * Pow2(k) < b THEN ExponentDown(a, b, k + 1) ELSE 0 - k
Exponent(a, b) == IF a >= b THEN ExponentUp(a, b, 0) ELSE ExponentDown(a, b, 1)

\* 2^s mod m.
RECURSIVE Pow2Mod(_, _)
Pow2Mod(s, m) == IF s = 0 THEN 1 % m ELSE (2 * Pow2Mod(s - 1, m)) % m

\* int(background_img.height * 0.4) (line 121).  The double 0.4 is
\* 0.4 * (1 + 2^-54); the product rounds to 0.4 * H when that is an integer
\* and lies at least 0.2 from an integer otherwise, so truncation gives
\* floor(2 * H / 5).
TargetHeight(H) == (2 * H) \div 5

\* int(target_height * (character_img.width / character_img.height))
\* (lines 122-123) in IEEE-754 doubles, 53 bits, round to nearest.  The
\* quotient w / h is rounded first: with s = 52 - Exponent(w, h), the
\* remainder rho = (w * 2^s) mod h says which way.  Only when th * w / h is
\* an integer n and the quotient was rounded down can the product fall below
\* n: it is n - (th * rho / h) * 2^-s, which rounds to the double below n
\* when that distance exceeds half the spacing of doubles below n.
TargetWidth(th, w, h) ==
    IF (th * w) % h # 0 \/ th * w = 0 THEN (th * w) \div h
    ELSE LET n == (th * w) \div h
             er == Exponent(w, h)
             rho == (w * Pow2Mod(52 - er, h)) % h
             en == Exponent(n, 1)
             k == en - er - 1 - (IF n = Pow2(en) THEN 1 ELSE 0)
             below == IF k >= 0 THEN th * rho > h * Pow2(k)
                      ELSE th * rho * Pow2(0 - k) > h
         IN  IF rho # 0 /\ 2 * rho < h /\ below THEN n - 1 ELSE n

\* merge_images is called on a character and a background that open.
MergeImagesCall(character, background) ==
    /\ composite.pc = "idle"
    /\ composite' = [NotMerging EXCEPT !.pc = "loaded", !.character = character,
                                       !.background = background]
    /\ UNCHANGED <<providers, session_id, session_dir, workflow_status, output_files,
                   folders, files, calls, inv, other, story_orchestrator, created, getter,
                   merged, request>>

\* Lines 119-150: the character is resized and pasted; Image.resize raises
\* ValueError for an empty size, and the except clause returns an error dict.
MergeImagesComposite ==
    /\ composite.pc = "loaded"
    /\ LET w == composite.character[1]
           h == composite.character[2]
           W == composite.background[1]
           H == composite.background[2]
           target_height == TargetHeight(H)
           target_width == TargetWidth(target_height, w, h)
           x_position == (W - target_width) \div 2
           y_position == H - target_height - 50
       IN  composite' =
             IF target_width <= 0 \/ target_height <= 0
             THEN [composite EXCEPT !.pc = "done", !.status = "error"]
             ELSE [composite EXCEPT !.pc = "done", !.status = "success",
                                    !.character_size = <<target_width, target_height>>,
                                    !.final_size = <<W, H>>,
                                    !.character_position = <<x_position, y_position>>]
    /\ UNCHANGED <<providers, session_id, session_dir, workflow_status, output_files,
                   folders, files, calls, inv, other, story_orchestrator, created, getter,
                   merged, request>>

InitMerge ==
    /\ Init
    /\ <<story_generator, image_generator, image_processor>> = Shipped
    /\ media = "media_root"

NextMerge ==
    \/ \E character \in CharacterSizes, background \in BackgroundSizes :
         MergeImagesCall(character, background)
    \/ MergeImagesComposite

SpecMerge == InitMerge /\ [][NextMerge]_vars

(***************************************************************************)
(* _merge_two_images: the geometry of the side-by-side merge               *)
(***************************************************************************)
\* Input images are up to MaxPixels wide and high, or one of three fixed
\* sizes; 1 x 600 is a one-pixel column.
MaxPixels == 6
ImageSizes == ((1..MaxPixels) \X (1..MaxPixels)) \cup {<<800, 600>>, <<200, 300>>, <<1, 600>>}

\* int(img.width * target_height / img.height) with target_height 512
\* (lines 836-838): the quotient of two ints is the double nearest to the
\* exact quotient, which is the exact value when that is an integer and is
\* at least 1 / height below the next integer otherwise, so truncation
\* gives the floor.
ResizedWidth(w, h) == (w * 512) \div h

\* Both images are opened (lines 832-833).
MergeTwoImagesCall(image1, image2) ==
    /\ merged.pc = "idle"
    /\ merged' = [NotMerged EXCEPT !.pc = "opened", !.image1 = image1, !.image2 = image2]
    /\ UNCHANGED <<providers, session_id, session_dir, workflow_status, output_files,
                   folders, files, calls, inv, other, story_orchestrator, created, getter,
                   composite, request>>

\* Lines 835-858: both images are resized to height 512 and pasted side by
\* side; Image.resize raises ValueError for a width of 0, the except clause
\* returns False and merge_images_only reports "failed".
MergeTwoImagesPaste ==
    /\ merged.pc = "opened"
    /\ LET width1 == ResizedWidth(merged.image1[1], merged.image1[2])
           width2 == ResizedWidth(merged.image2[1], merged.image2[2])
       IN  merged' =
             IF width1 < 1 \/ width2 < 1
             THEN [merged EXCEPT !.pc = "done", !.status = "failed"]
             ELSE [merged EXCEPT !.pc = "done", !.status = "success",
                                 !.size = <<width1 + width2, 512>>,
                                 !.position1 = <<0, 0>>,
                                 !.position2 = <<width1, 0>>]
    /\ UNCHANGED <<providers, session_id, session_dir, workflow_status, output_files,
                   folders, files, calls, inv, other, story_orchestrator, created, getter,
                   composite, request>>

InitSideBySide ==
    /\ Init
    /\ <<story_generator, image_generator, image_processor>> = Shipped
    /\ media = "media_root"

NextSideBySide ==
    \/ \E image1 \in ImageSizes, image2 \in ImageSizes : MergeTwoImagesCall(image1, image2)
    \/ MergeTwoImagesPaste

SpecSideBySide == InitSideBySide /\ [][NextSideBySide]_vars

(***************************************************************************)
(* cleanup_session between invocations                                     *)
(***************************************************************************)
\* The directory d is dir or lies below it.  The fallback location
\* ./media/sessions/<id> lies below the current directory.
Under(dir, d) == d = dir \/ (dir = Cwd /\ d.root \in {"cwd", "fallback"})

\* os.path.exists(dir): the current directory exists, a session directory
\* exists when one of its folders does.
DirExists(dir) == dir = Cwd \/ \E f \in folders : f[1] = dir

\* cleanup_session: shutil.rmtree(self.session_dir) removes the directory
\* with every folder and file below it; session_dir itself is kept.
CleanupSession ==
    /\ inv.pc \in {"idle", "done"}
    /\ IF session_dir # NoDir /\ DirExists(session_dir)
       THEN /\ folders' = {f \in folders : ~Under(session_dir, f[1])}
            /\ files' = [path \in {q \in DOMAIN files : ~Under(session_dir, q.dir)}
                           |-> files[path]]
       ELSE UNCHANGED <<folders, files>>
    /\ UNCHANGED <<providers, threads, session_id, session_dir, workflow_status,
                   output_files, calls, inv>>

InitCleanup ==
    /\ Init
    /\ <<story_generator, image_generator, image_processor>> = Shipped
    /\ media \in {"media_root", "fallback", "cwd"}

NextCleanup ==
    \/ \E sid \in SessionIds : GenerateStoryOnly("a brave knight", sid)
    \/ GenerateStory
    \/ \E sid \in SessionIds : MergeImagesOnly("", sid, ImageA, ImageB)
    \/ MergeImages
    \/ CleanupSession

SpecCleanup == InitCleanup /\ [][NextCleanup]_vars

(***************************************************************************)
(* GenerateStoryView.post                                                  *)
(***************************************************************************)
MaxRequests == 2

\* request.data.get('prompt_text', ''): the text of a form field, or any
\* JSON value of a JSON body.
Text(v) == [t |-> "str", v |-> v]
PromptTexts == {Text("a brave knight"), Text(""), [t |-> "int", v |-> "123"]}
GenerationTypes == {"story", "character", "background", "merge", "full"}

\* "not prompt_text": the empty text is falsy, 123 is not.
Falsy(prompt_text) == prompt_text.v = ""

\* prompt_text[:50] raises TypeError unless prompt_text can be sliced.
Subscriptable(prompt_text) == prompt_text.t = "str"

\* post up to StorySession.objects.create (views.py:160-191): the input is
\* validated and answered 400, or the session is created "in_progress".
Post(generation_type, prompt_text, image1, image2) ==
    /\ request.pc \in {"idle", "answered"}
    /\ request.handled < MaxRequests
    /\ inv.pc \in {"idle", "done"}
    /\ LET received == [NoRequest EXCEPT !.generation_type = generation_type,
                                         !.prompt_text = prompt_text,
                                         !.handled = request.handled + 1]
           invalid == IF generation_type = "merge" THEN ~image1 \/ ~image2
                      ELSE Falsy(prompt_text)
       IN  request' = IF invalid
                      THEN [received EXCEPT !.pc = "answered", !.code = 400]
                      ELSE [received EXCEPT !.pc = "created", !.session = "in_progress"]
    /\ UNCHANGED <<providers, session_id, session_dir, workflow_status, output_files,
                   folders, files, calls, inv, other, story_orchestrator, created,
                   getter, composite, merged>>

\* get_story_orchestrator and the log line (views.py:194-198): a prompt
\* that cannot be sliced raises, and the outer except clause (260-265)
\* answers 500 without touching the session.
PostLog ==
    /\ request.pc = "created"
    /\ request' = IF Subscriptable(request.prompt_text)
                  THEN [request EXCEPT !.pc = "calling", !.call = calls + 1]
                  ELSE [request EXCEPT !.pc = "answered", !.code = 500]
    /\ UNCHANGED <<providers, session_id, session_dir, workflow_status, output_files,
                   folders, files, calls, inv, other, story_orchestrator, created,
                   getter, composite, merged>>

\* The call of the entry point of the generation type (views.py:201-211),
\* with the prompt and the id of the session.
PostCall ==
    /\ request.pc = "calling"
    /\ calls < request.call
    /\ LET prompt == request.prompt_text.v
           sid == GeneratedSessionId(request.call)
       IN  CASE request.generation_type = "story" -> GenerateStoryOnly(prompt, sid)
             [] request.generation_type = "character" -> GenerateCharacterOnly(prompt, sid)
             [] request.generation_type = "background" -> GenerateBackgroundOnly(prompt, sid)
             [] request.generation_type = "merge" ->
                  MergeImagesOnlyFrom("merge", prompt, sid, NonePath, NonePath)
             [] OTHER -> ProcessUserRequest(prompt, sid)

\* The rest of post (views.py:213-265): the session is saved "completed"
\* for a "success" result and "failed" for any other; an exception out of
\* the entry point reaches the outer except clause.
PostAnswer ==
    /\ request.pc = "calling"
    /\ calls = request.call
    /\ inv.pc \in {"done", "propagated"}
    /\ request' =
         IF inv.pc = "propagated"
         THEN [request EXCEPT !.pc = "answered", !.code = 500]
         ELSE IF inv.ret.status = "success"
         THEN [request EXCEPT !.pc = "answered", !.session = "completed",
                              !.result = inv.ret.status, !.code = 200]
         ELSE [request EXCEPT !.pc = "answered", !.session = "failed",
                              !.result = inv.ret.status, !.code = 500]
    /\ UNCHANGED <<providers, session_id, session_dir, workflow_status, output_files,
                   folders, files, calls, inv, other, story_orchestrator, created,
                   getter, composite, merged>>

InitView ==
    /\ Init
    /\ <<story_generator, image_generator, image_processor>> \in {Shipped, Doubles}
    /\ media = "media_root"

NextView ==
    \/ \E generation_type \in GenerationTypes, prompt_text \in PromptTexts,
          image1 \in BOOLEAN, image2 \in BOOLEAN :
         Post(generation_type, prompt_text, image1, image2)
    \/ PostLog
    \/ PostCall
    \/ PostAnswer
    \/ BeginStep
    \/ GenerateStoryContent
    \/ GenerateCharacterImage
    \/ GenerateBackgroundImage
    \/ ProcessCharacterImage
    \/ CreateFinalScene
    \/ CompileFinalResults
    \/ PipelineExcept
    \/ GenerateStory
    \/ GenerateCharacterImageFromPrompt
    \/ GenerateBackgroundImageFromPrompt
    \/ MergeImages

SpecView == InitView /\ [][NextView]_vars

(***************************************************************************)
(* get_story_orchestrator, called from request threads                     *)
(***************************************************************************)
\* Each thread calls get_story_orchestrator at most MaxGets times.
MaxGets == 2

\* The fields of the orchestrator and the session store.
orchestrator == <<providers, session_id, session_dir, workflow_status, output_files,
                  folders, files, calls, inv, other, composite, merged, request>>

\* "if story_orchestrator is None": the global is read.
GetCheck(t) ==
    /\ getter[t].pc = "idle"
    /\ Len(getter[t].rets) < MaxGets
    /\ getter' = [getter EXCEPT ![t].pc = IF story_orchestrator = 0
                                          THEN "construct" ELSE "return"]
    /\ UNCHANGED <<orchestrator, story_orchestrator, created>>

\* "StoryOrchestrator()": a new instance is constructed.
GetConstruct(t) ==
    /\ getter[t].pc = "construct"
    /\ created' = created + 1
    /\ getter' = [getter EXCEPT ![t].pc = "assign", ![t].made = created']
    /\ UNCHANGED <<orchestrator, story_orchestrator>>

\* "story_orchestrator = ...": the instance is stored in the global.
GetAssign(t) ==
    /\ getter[t].pc = "assign"
    /\ story_orchestrator' = getter[t].made
    /\ getter' = [getter EXCEPT ![t].pc = "return"]
    /\ UNCHANGED <<orchestrator, created>>

\* "return story_orchestrator": the global is read again.
GetReturn(t) ==
    /\ getter[t].pc = "return"
    /\ getter' = [getter EXCEPT ![t].pc = "idle",
                                ![t].rets = Append(@, story_orchestrator)]
    /\ UNCHANGED <<orchestrator, story_orchestrator, created>>

InitSingleton ==
    /\ Init
    /\ <<story_generator, image_generator, image_processor>> = Shipped
    /\ media = "media_root"

NextSingleton ==
    \E t \in Threads : GetCheck(t) \/ GetConstruct(t) \/ GetAssign(t) \/ GetReturn(t)

SpecSingleton == InitSingleton /\ [][NextSingleton]_vars

(***************************************************************************)
(* Properties                                                              *)
(***************************************************************************)
Returned(ep) == inv.ep = ep /\ inv.pc = "done"

\* The key of output_files each provider step records.
OutputKeys == <<"story", "character_image", "background_image",
                "processed_character", "final_scene">>
KeysBefore(k) == {OutputKeys[i] : i \in 1..(k - 1)}
StepsAfter(k) == {StepNames[j] : j \in (k + 1)..Len(StepNames)}

\* C1: in process_user_request, when provider step k fails, its record is
\* "failed", no step after k gets a record, output_files holds exactly the
\* entries of the steps before k, the run goes nowhere but to its except
\* clause, and the result has status "error".
C1_FailedStepAborts ==
    \A k \in DOMAIN OutputKeys :
        (inv.ep = "process_user_request" /\ inv.failed = StepNames[k]) =>
            /\ inv.pc \in {"except", "done"}
            /\ workflow_status[StepNames[k]].status = "failed"
            /\ DOMAIN workflow_status \cap StepsAfter(k) = {}
            /\ DOMAIN output_files = KeysBefore(k)
            /\ inv.pc = "done" =>
                 /\ inv.ret.status = "error"
                 /\ inv.ret.workflow_status[StepNames[k]].status = "failed"
                 /\ DOMAIN inv.ret.workflow_status \cap StepsAfter(k) = {}
                 /\ DOMAIN inv.ret.partial_results = KeysBefore(k)

\* A run that got to scene compositing, failed there and returned.
C1_Witness ==
    /\ Returned("process_user_request")
    /\ inv.failed = "scene_compositing"
    /\ inv.ret.status = "error"
    /\ DOMAIN output_files = KeysBefore(5)

\* C2: with the shipped providers, when no provider call and no file write
\* fails, process_user_request returns "success", with character_generation
\* completed and output_files["character_image"] recorded.
C2_ShippedPipelineSucceeds ==
    ( /\ Returned("process_user_request")
      /\ <<story_generator, image_generator, image_processor>> = Shipped
      /\ inv.cause \notin {"provider", "filesystem"} ) =>
        /\ inv.ret.status = "success"
        /\ workflow_status["character_generation"].status = "completed"
        /\ "character_image" \in DOMAIN output_files

\* C3: a "success" result of process_user_request carries all six steps,
\* each "completed", and exactly the five output files.
C3_SuccessIsComplete ==
    (Returned("process_user_request") /\ inv.ret.status = "success") =>
        /\ DOMAIN inv.ret.workflow_status = {StepNames[i] : i \in DOMAIN StepNames}
        /\ \A step \in DOMAIN inv.ret.workflow_status :
             inv.ret.workflow_status[step].status = "completed"
        /\ DOMAIN inv.ret.output_files = {OutputKeys[i] : i \in DOMAIN OutputKeys}

C3_Witness ==
    /\ Returned("process_user_request")
    /\ inv.ret.status = "success"
    /\ "final_scene" \in DOMAIN inv.ret.output_files

\* C4: no entry point lets an exception out; whatever a provider or the
\* session store does, it returns a dict that has a status.
C4_NothingPropagates ==
    /\ inv.pc # "propagated"
    /\ inv.pc = "done" => "status" \in inv.ret.keys /\ inv.ret.status # ""

\* An entry point that returned after an exception that is no RuntimeError.
C4_Witness ==
    /\ inv.pc = "done"
    /\ inv.exc.type \in {"TypeError", "FileNotFoundError", "ProviderError"}
    /\ "status" \in inv.ret.keys

\* C5: the partial_results of an error result are exactly the entries of
\* the steps completed in this invocation; each names a file this
\* invocation wrote under its session directory and that is still there.
C5_PartialResults ==
    (Returned("process_user_request") /\ inv.ret.status = "error") =>
        LET completed == {i \in DOMAIN OutputKeys :
                            /\ StepNames[i] \in DOMAIN inv.ret.workflow_status
                            /\ inv.ret.workflow_status[StepNames[i]].status = "completed"}
        IN  /\ DOMAIN inv.ret.partial_results = {OutputKeys[i] : i \in completed}
            /\ \A key \in DOMAIN inv.ret.partial_results :
                 LET path == inv.ret.partial_results[key]
                 IN  /\ path.dir = session_dir
                     /\ path \in DOMAIN files
                     /\ files[path].by = calls

\* An abort after three completed steps.
C5_Witness ==
    /\ Returned("process_user_request")
    /\ inv.ret.status = "error"
    /\ inv.failed = "character_processing"
    /\ Cardinality(DOMAIN inv.ret.partial_results) = 3

\* C6: a failure result has a non-empty error string and the session id
\* of its invocation: the argument, or the generated id when none was given.
C6_FailureHasErrorAndSession ==
    (inv.pc = "done" /\ inv.ret.status # "success") =>
        /\ {"error", "session_id"} \subseteq inv.ret.keys
        /\ inv.ret.error \notin {"", NoKey, None}
        /\ inv.ret.session_id =
             IF inv.sid # None THEN inv.sid ELSE GeneratedSessionId(calls)

\* A failed process_user_request that was given no session id.
C6_Witness ==
    /\ Returned("process_user_request")
    /\ inv.sid = None
    /\ inv.ret.status = "error"
    /\ inv.ret.session_id = GeneratedSessionId(calls)

\* C7: with the story generator absent or not initialized,
\* generate_story_only returns "success" with the fallback story, and
\* generated_story.txt is written under the session's story folder.
C7_FallbackStory ==
    (Returned("generate_story_only") /\ story_generator \in {"none", "uninitialized"}) =>
        LET path == File(SessionDirectory(inv.sid), "story", "generated_story.txt")
            story == FallbackStory(inv.prompt)
        IN  /\ inv.ret.status = "success"
            /\ inv.ret.results["story"] = story
            /\ path \in DOMAIN files
            /\ files[path] = StoryFile(inv.prompt, story, calls)

C7_Witness ==
    /\ Returned("generate_story_only")
    /\ story_generator = "uninitialized"
    /\ inv.ret.status = "success"

\* The labels of the sections of a story file, in order.
Labels(content) == [i \in DOMAIN content.sections |-> content.sections[i].label]

\* C8: for a non-empty prompt generate_story_only returns "success" or
\* "failed"; on "success" the story content is not empty and
\* output_files["story"] names an existing generated_story.txt with the
\* four labelled sections in order.
C8_StoryOnlyResult ==
    (Returned("generate_story_only") /\ inv.prompt \notin {"", None}) =>
        /\ inv.ret.status \in {"success", "failed"}
        /\ inv.ret.status = "success" =>
             /\ inv.ret.results["story"].content # ""
             /\ "story" \in DOMAIN inv.ret.output_files
             /\ LET path == inv.ret.output_files["story"]
                IN  /\ path.name = "generated_story.txt"
                    /\ path \in DOMAIN files
                    /\ Labels(files[path]) =
                         <<"User Prompt:", "Generated Story:",
                           "Character Descriptions:", "Background Descriptions:">>

C8_Witness ==
    /\ Returned("generate_story_only")
    /\ inv.prompt = "a brave knight"
    /\ story_generator = "pipeline"
    /\ inv.ret.status = "success"

\* The merged.png files on disk.
MergedFiles == [p \in {q \in DOMAIN files : q.name = "merged.png"} |-> files[p]]
\* An image argument that is None, empty, or names no file.
Missing(path) == path \in {NonePath, EmptyPath} \/ path \notin DOMAIN files

\* C9: no step of a merge_images_only whose image1_path or image2_path is
\* missing creates or overwrites a merged.png, and it returns "failed".
C9_MissingInputStep ==
    (inv'.ep = "merge_images_only" /\ (Missing(inv'.image1) \/ Missing(inv'.image2))) =>
        /\ MergedFiles' = MergedFiles
        /\ inv'.pc = "done" => inv'.ret.status = "failed"
C9_MissingInputFails == [][C9_MissingInputStep]_vars

\* A merge with a missing second image returned, with the merged.png of an
\* earlier merge in the folder a merge writes to.
C9_Witness ==
    /\ Returned("merge_images_only")
    /\ inv.image1 = ImageA
    /\ inv.image2 = MissingImage
    /\ inv.ret.status = "failed"
    /\ File(session_dir, "images", "merged.png") \in DOMAIN files

\* C10: merge_images_only with two existing, readable images returns
\* "success", whatever ran before on the orchestrator.
C10_MergeSucceeds ==
    (Returned("merge_images_only") /\ inv.image1 = ImageA /\ inv.image2 = ImageB) =>
        inv.ret.status = "success"

\* C11: a successful merge_images_only for session s writes images/merged.png
\* in the session directory of s and reports that path as merged_image,
\* whatever entry points ran before on the orchestrator.
C11_MergeInOwnSession ==
    (Returned("merge_images_only") /\ inv.ret.status = "success") =>
        LET path == File(SessionDirectory(inv.sid), "images", "merged.png")
        IN  /\ inv.ret.output_files["merged_image"] = path
            /\ path \in DOMAIN files
            /\ files[path].by = calls

\* The step records a partial entry point writes itself.
OwnSteps(ep) ==
    CASE ep = "generate_story_only" -> {"story_generation"}
      [] ep = "generate_character_only" -> {"character_generation"}
      [] ep = "generate_background_only" -> {"background_generation"}
      [] OTHER -> {}
PartialEntryPoints == {"generate_story_only", "generate_character_only",
                       "generate_background_only", "merge_images_only"}

\* C12: the workflow_status a partial entry point returns holds the step
\* records of that invocation only, none written by an earlier invocation.
C12_OwnWorkflowStatus ==
    (inv.pc = "done" /\ inv.ep \in PartialEntryPoints /\ inv.ret.status = "success") =>
        DOMAIN inv.ret.workflow_status \subseteq OwnSteps(inv.ep)

\* C13: with the image generator absent or not initialized,
\* generate_character_only and generate_background_only write a placeholder
\* text file under the session's images folder, return "success" and report
\* is_placeholder true with the placeholder's path.
C13_Placeholder ==
    \A ep \in {"generate_character_only", "generate_background_only"} :
        (Returned(ep) /\ image_generator \in {"none", "uninitialized"}) =>
            LET key == IF ep = "generate_character_only"
                       THEN "character_image" ELSE "background_image"
                name == IF ep = "generate_character_only"
                        THEN "character_placeholder.txt" ELSE "background_placeholder.txt"
                path == File(SessionDirectory(inv.sid), "images", name)
            IN  /\ inv.ret.status = "success"
                /\ inv.ret.results[key].is_placeholder = TRUE
                /\ inv.ret.results[key].file_path = path
                /\ inv.ret.output_files[key] = path
                /\ path \in DOMAIN files
                /\ files[path].kind = "placeholder"
                /\ files[path].by = calls

\* A background placeholder written for a generator that is not initialized.
C13_Witness ==
    /\ Returned("generate_background_only")
    /\ image_generator = "uninitialized"
    /\ inv.ret.status = "success"
    /\ inv.ret.results["background_image"].is_placeholder = TRUE

\* C14: generate_character_only and generate_background_only return
\* "failed" whenever their image step failed, never "success".
C14_ImageFailureIsFailed ==
    /\ (Returned("generate_character_only") /\ inv.character.status = "failed") =>
           inv.ret.status = "failed"
    /\ (Returned("generate_background_only") /\ inv.background.status = "failed") =>
           inv.ret.status = "failed"

\* The entry points that keep the path _create_session_directory returns.
KeepsSessionDir == {"process_user_request", "generate_story_only",
                    "generate_character_only", "generate_background_only"}

\* C15: a second _create_session_directory for the same session id does not
\* raise, returns the path the first returned, and leaves the folders and
\* the files already on disk as they are.
C15_SecondCallStep ==
    ( /\ calls' = calls + 1
      /\ inv.ep \in KeepsSessionDir /\ inv'.ep \in KeepsSessionDir
      /\ session_id' = session_id ) =>
        /\ session_dir' = session_dir
        /\ files' = files
        /\ folders' = folders
        /\ inv'.exc = NoExc
C15_SessionDirectoryIdempotent == [][C15_SecondCallStep]_vars

\* A second invocation for session "s1" has begun, with the story file of
\* the first in the session directory.
C15_Witness ==
    /\ calls = 2
    /\ inv.ep = "generate_character_only" /\ inv.pc = "run"
    /\ session_id = "s1"
    /\ session_dir = [root |-> "media_root", sid |-> "s1"]
    /\ File(session_dir, "story", "generated_story.txt") \in DOMAIN files

\* C16: _create_session_directory always returns a path: the session's
\* directory under the media root, else ./media/sessions/<session_id>, else
\* the current working directory; the entry point calling it goes on.
C16_SessionDirectoryReturnsPath ==
    (inv.ep \in KeepsSessionDir) =>
        /\ session_dir # NoDir
        /\ session_dir =
             CASE media = "media_root" -> [root |-> "media_root", sid |-> session_id]
               [] media = "fallback" -> [root |-> "fallback", sid |-> session_id]
               [] OTHER -> Cwd
        /\ inv.pc # "propagated"

\* Neither location can be used: the working directory is returned.
C16_Witness ==
    /\ inv.ep = "generate_story_only" /\ inv.pc = "run"
    /\ media = "cwd"
    /\ session_dir = Cwd

\* C17: when an invocation begins on the shared orchestrator while the
\* other thread's invocation is in progress, session_id and session_dir
\* become the beginner's, process_user_request empties workflow_status and
\* output_files, and generate_story_only replaces the story_generation
\* record: the per-call state of the invocation in progress is overwritten.
C17_OverwriteStep ==
    (calls' = calls + 1 /\ other.pc \notin {"idle", "done"}) =>
        /\ session_id' = inv'.sid
        /\ session_dir' = [root |-> "media_root", sid |-> inv'.sid]
        /\ inv'.ep = "process_user_request" =>
             workflow_status' = EmptyDict /\ output_files' = EmptyDict
        /\ inv'.ep = "generate_story_only" =>
             workflow_status'["story_generation"] = [status |-> "in_progress", error |-> ""]
C17_InterleavingOverwrites == [][C17_OverwriteStep]_vars

\* process_user_request for session "s1" returned a result that carries the
\* session id "s2" of the other thread's invocation and a file it wrote
\* under the directory of "s2".
C17_Witness ==
    /\ Returned("process_user_request")
    /\ inv.sid = "s1"
    /\ other.sid = "s2"
    /\ inv.ret.session_id = "s2"
    /\ LET out == IF inv.ret.status = "success"
                  THEN inv.ret.output_files ELSE inv.ret.partial_results
       IN  \E key \in DOMAIN out :
             /\ out[key].dir = [root |-> "media_root", sid |-> "s2"]
             /\ out[key] \in DOMAIN files

\* C18: get_story_orchestrator constructs at most one StoryOrchestrator and
\* every call, of every thread, returns that one instance.
C18_OneInstance ==
    /\ created <= 1
    /\ \A t \in Threads, u \in Threads :
         \A i \in DOMAIN getter[t].rets, j \in DOMAIN getter[u].rets :
           getter[t].rets[i] = getter[u].rets[j]

\* C19: a merge request to GenerateStoryView with both images uploaded is
\* answered 200 with a merged_image URL in image_urls.
C19_ViewMergeSucceeds ==
    (inv.pc = "done" /\ inv.view = "merge") =>
        /\ Response(inv.view, inv.ret).code = 200
        /\ "merged_image" \in Response(inv.view, inv.ret).image_urls

\* C20: merge_images resizes a w x h character on a W x H background to
\* height floor(0.4 * H) and width floor(floor(0.4 * H) * w / h), pastes it
\* at x = (W - width) div 2, y = H - height - 50, and the output has the
\* size of the background.
C20_CompositeGeometry ==
    (composite.pc = "done" /\ composite.status = "success") =>
        LET w == composite.character[1]
            h == composite.character[2]
            W == composite.background[1]
            H == composite.background[2]
            height == (4 * H) \div 10
            width == (height * w) \div h
        IN  /\ composite.character_size = <<width, height>>
            /\ composite.character_position = <<(W - width) \div 2, H - height - 50>>
            /\ composite.final_size = <<W, H>>

\* C21: for two existing images of sizes w1 x h1 and w2 x h2 the merge
\* produces an image 512 high and floor(w1*512/h1) + floor(w2*512/h2) wide,
\* the first image at the left and the second right next to it.
C21_SideBySideGeometry ==
    (merged.pc = "done") =>
        LET width1 == (merged.image1[1] * 512) \div merged.image1[2]
            width2 == (merged.image2[1] * 512) \div merged.image2[2]
        IN  /\ merged.status = "success"
            /\ merged.size = <<width1 + width2, 512>>
            /\ merged.position1 = <<0, 0>>
            /\ merged.position2 = <<width1, 0>>

\* The steps of workflow_status that are in progress.
InProgress == {s \in DOMAIN workflow_status : workflow_status[s].status = "in_progress"}

\* C22: during process_user_request at most one step is "in_progress", and
\* a step has a record only when every step before it is "completed" and
\* has recorded its entry of output_files.
C22_StepsInOrder ==
    (inv.ep = "process_user_request") =>
        /\ Cardinality(InProgress) <= 1
        /\ \A i \in DOMAIN StepNames :
               StepNames[i] \in DOMAIN workflow_status =>
                   \A j \in 1..(i - 1) :
                       /\ StepNames[j] \in DOMAIN workflow_status
                       /\ workflow_status[StepNames[j]].status = "completed"
                       /\ OutputKeys[j] \in DOMAIN output_files
C22_Witness ==
    /\ inv.ep = "process_user_request"
    /\ InProgress = {"scene_compositing"}
    /\ {"story", "character_image", "background_image", "processed_character"}
           \subseteq DOMAIN output_files

\* C23: when an entry point has returned, no step of the workflow_status it
\* returns is still "in_progress": every step begun was moved to
\* "completed" or "failed" before the return.
C23_NoStepLeftInProgress ==
    (inv.pc = "done") =>
        \A s \in DOMAIN inv.ret.workflow_status :
            inv.ret.workflow_status[s].status # "in_progress"

\* C24: the keys of workflow_status are among the six step names and every
\* recorded status is "in_progress", "completed" or "failed".
C24_WorkflowStatusWellFormed ==
    /\ DOMAIN workflow_status \subseteq {StepNames[i] : i \in DOMAIN StepNames}
    /\ \A s \in DOMAIN workflow_status :
           workflow_status[s].status \in {"in_progress", "completed", "failed"}

\* The text m occurs in the text s.
Contains(s, m) == \E i \in 1..(Len(s) - Len(m) + 1) : SubSeq(s, i, i + Len(m) - 1) = m

\* The message a failing story provider gives: the text of the exception it
\* raises, the 'error' of its dict, or, for the dict of
\* StoryGeneratorPipeline that has no 'error', its 'content'.
ProviderMessage(r) ==
    IF r.t = "raise" \/ r.error # NoKey THEN r.error ELSE r.content

\* C25: when the story provider returns an error status or raises during
\* process_user_request, the error of the failed story_generation record
\* and the error of the result contain the provider's own message.
C25_ProviderMessageKept ==
    (/\ inv.ep = "process_user_request"
     /\ inv.failed = "story_generation"
     /\ inv.cause = "provider"
     /\ Available(story_generator)) =>
        \E r \in StoryGeneratorResults(story_generator, inv.prompt) :
            /\ r.t = "raise" \/ r.status # "success"
            /\ Contains(workflow_status["story_generation"].error, ProviderMessage(r))
            /\ inv.pc = "done" => Contains(inv.ret.error, ProviderMessage(r))

\* C26: the path _create_session_directory returned, on the primary path
\* and on each fallback path, is a directory that contains the four child
\* folders story, images, processed and final.
C26_SessionDirectoryHasFolders ==
    (session_dir # NoDir) =>
        \A sub \in SubFolders : <<session_dir, sub>> \in folders

\* C27: during one process_user_request run output_files only grows: a
\* step of the run keeps every recorded key with its path and adds at most
\* one key, the key of the step that is running, which was not there before.
C27_OutputFilesGrow ==
    [][(inv.ep = "process_user_request" /\ calls' = calls) =>
          /\ \A k \in DOMAIN output_files :
                 k \in DOMAIN output_files' /\ output_files'[k] = output_files[k]
          /\ Cardinality(DOMAIN output_files' \ DOMAIN output_files) <= 1
          /\ \A i \in DOMAIN OutputKeys :
                 OutputKeys[i] \in DOMAIN output_files' \ DOMAIN output_files =>
                     Running("process_user_request", StepNames[i])
          /\ output_files' # output_files =>
                 DOMAIN output_files' # DOMAIN output_files]_vars
C27_Witness ==
    /\ inv.ep = "process_user_request"
    /\ inv.pc = "result_compilation"
    /\ DOMAIN output_files = {OutputKeys[i] : i \in DOMAIN OutputKeys}

\* The session directory of the most recent invocation's session, below a
\* sessions root.
SessionsRoots == {"media_root", "fallback"}
OfLastSession(d) == d.root \in SessionsRoots /\ d.sid = session_id

\* C28: cleanup_session removes only the session directory of the session
\* of the most recent invocation: every folder and every file that
\* disappears was in that directory, never in another session's directory
\* and never outside the sessions root.
C28_CleanupOwnSessionOnly ==
    [][/\ \A f \in folders \ folders' : OfLastSession(f[1])
       /\ \A path \in DOMAIN files \ DOMAIN files' : OfLastSession(path.dir)]_vars

\* C29: the output_files generate_story_only returns holds only the "story"
\* entry that invocation wrote, no entry recorded by an earlier invocation.
C29_StoryOnlyOutputFiles ==
    (Returned("generate_story_only") /\ inv.ret.status = "success") =>
        /\ DOMAIN inv.ret.output_files = {"story"}
        /\ inv.ret.output_files["story"] = File(session_dir, "story", "generated_story.txt")

\* C30: once GenerateStoryView.post has answered a request for which it
\* created a StorySession, the session is not "in_progress": it is
\* "completed" exactly when the orchestrator's result has status "success"
\* and "failed" in every other outcome.
C30_SessionSettled ==
    (request.pc = "answered" /\ request.session # "") =>
        /\ request.session \in {"completed", "failed"}
        /\ request.session = "completed" <=> request.result = "success"

====
